---- MODULE Spec2Model ----
(***************************************************************************)
(* cleanup_chronos_jobs.py: one run of main().  The run reads the expected *)
(* jobs from the SOA configuration, lists the jobs the Chronos scheduler   *)
(* is running, and deletes the tasks and then the job of every running     *)
(* job that is not expected.                                               *)
(***************************************************************************)
EXTENDS Integers, Sequences, FiniteSets, TLC

\* ------------------------------------------------------------------ bounds
MaxCfg == 2
MaxLive == 3
MaxRerunLive == 2

\* ---------------------------------------------------------------- universe
Jobs == {"a", "b", "c"}
Services == {"svc"}

\* What a client call can hand back: None (the 204 body), some response
\* body, or an Exception instance.
Payloads == {"None", "body", "Exception"}

\* A client call either returns a payload or raises an Exception.
Outcomes == ({"return"} \X Payloads) \cup {<<"raise", "Exception">>}

VARIABLES
    pc,              \* position of main()
    config,          \* the SOA configuration: list of (service_name, job_name)
    live,            \* the scheduler's job list: list of dicts with a 'name'
    expected_jobs,   \* main: expected_jobs
    running_jobs,    \* main: running_jobs
    to_delete,       \* main: to_delete
    task_responses,  \* main: task_responses
    task_successes,
    task_failures,
    job_responses,   \* main: job_responses
    job_successes,
    job_failures,
    calls,           \* every client.delete_tasks / client.delete call issued
    uncaught,        \* the call whose exception left main(), or "none"
    co_orphan,       \* jobs seen live and not configured at an instant of discovery
    list_calls,      \* number of client.list() calls of this run
    prev,            \* what the runs before this one did
    vanished,        \* orphans somebody else took off the scheduler in this run
    exit_status      \* -1 until the run ends; 0 normal return; 1 sys.exit(1)

env == <<config, live>>
disc == <<expected_jobs, running_jobs, to_delete>>
taskv == <<task_responses, task_successes, task_failures>>
jobv == <<job_responses, job_successes, job_failures>>

hist == <<list_calls, prev, vanished>>

vars == <<pc, env, disc, taskv, jobv, calls, uncaught, co_orphan, exit_status, hist>>

\* ----------------------------------------------------------------- helpers
Range(s) == {s[i] : i \in 1..Len(s)}

SeqsUpTo(S, n) == UNION {[1..k -> S] : k \in 0..n}

\* list(some_set): every element once, in an order the set does not fix.
ListsOf(S) ==
    {l \in [1..Cardinality(S) -> S] : \A i, j \in 1..Cardinality(S) : l[i] = l[j] => i = j}

\* -------------------------------------------------------- pure functions
\* isinstance(value, Exception)
IsException(value) == value = "Exception"

\* execute_chronos_api_call_for_job without its try/except.
execute_without_except(outcome) ==
    IF outcome[1] = "raise"
    THEN [raised |-> TRUE, value |-> outcome[2]]
    ELSE [raised |-> FALSE, value |-> outcome[2]]

\* execute_chronos_api_call_for_job: try: return api_call(job)
\*                                   except Exception as e: return e
\* "raised" tells whether an exception leaves the function.
execute_chronos_api_call_for_job(outcome) ==
    IF outcome[1] = "raise"
    THEN [raised |-> FALSE, value |-> outcome[2]]
    ELSE [raised |-> FALSE, value |-> outcome[2]]

\* jobs_to_delete with its arguments the wrong way round.
jobs_to_delete_swapped(expected, actual) ==
    ListsOf(Range(expected) \ Range(actual))

\* jobs_to_delete with symmetric_difference in place of difference.
jobs_to_delete_symmetric(expected, actual) ==
    ListsOf((Range(actual) \ Range(expected)) \cup (Range(expected) \ Range(actual)))

\* jobs_to_delete removing one occurrence from actual per expected element
\* (for job in expected: actual.remove(job)) in place of a set difference.
jobs_to_delete_multiset(expected, actual) ==
    LET Count(s, x) == Cardinality({i \in 1..Len(s) : s[i] = x}) IN
    ListsOf({x \in Range(actual) : Count(actual, x) > Count(expected, x)})

\* jobs_to_delete filtering the list without going through set().
jobs_to_delete_unhashed(expected, actual) ==
    {SelectSeq(actual, LAMBDA x : x \notin Range(expected))}

\* jobs_to_delete: list(set(actual_jobs).difference(set(expected_jobs)));
\* the set of lists the call may return.
jobs_to_delete(expected, actual) ==
    ListsOf(Range(actual) \ Range(expected))

\* expected_job_names: [job[-1] for job in service_job_pairs]
LastOf(pair) == pair[Len(pair)]
expected_job_names(service_job_pairs) ==
    [i \in 1..Len(service_job_pairs) |-> LastOf(service_job_pairs[i])]

\* running_job_names: [job['name'] for job in client.list()]
NameOf(job) == job.name
running_job_names(listing) ==
    [i \in 1..Len(listing) |-> NameOf(listing[i])]

\* the classification loops of main (lines 101-105 and 110-114)
IsFailure(response) == IsException(response[Len(response)])
IsSuccess(response) == ~IsException(response[Len(response)])

\* the failure loop leaving at its first failure.
Failures_first_only(responses) ==
    LET failed == SelectSeq(responses, IsFailure) IN
    IF failed = <<>> THEN <<>> ELSE <<failed[1]>>

Failures(responses) == SelectSeq(responses, IsFailure)

\* the loop appending to the success list outside its else branch.
Successes_without_else(responses) == responses

Successes(responses) == SelectSeq(responses, IsSuccess)

\* cleanup_tasks / cleanup_jobs as a function of what the client does:
\* [(job, execute_chronos_api_call_for_job(api_call, job)) for job in jobs]
\* outcome_of[job] is what the client call does for that job.
cleanup(outcome_of, jobs) ==
    [i \in 1..Len(jobs) |-> <<jobs[i], execute_chronos_api_call_for_job(outcome_of[jobs[i]]).value>>]

\* the exit policy of main (lines 116-135)
ExitStatus(todo, tfail, jfail) ==
    IF Len(todo) = 0 THEN 0
    ELSE IF Len(jfail) > 0 \/ Len(tfail) > 0 THEN 1 ELSE 0

\* --------------------------------------------------------------- the state
\* Nothing has run yet: no earlier run, and no job deleted by one.
NoRun == [status |-> "none", raised |-> {}, deleted |-> {}]

Init ==
    /\ pc = "start"
    /\ config \in SeqsUpTo(Services \X Jobs, MaxCfg)
    /\ live \in SeqsUpTo([name : Jobs], MaxLive)
    /\ expected_jobs = <<>>
    /\ running_jobs = <<>>
    /\ to_delete = <<>>
    /\ task_responses = <<>>
    /\ task_successes = <<>>
    /\ task_failures = <<>>
    /\ job_responses = <<>>
    /\ job_successes = <<>>
    /\ job_failures = <<>>
    /\ calls = <<>>
    /\ uncaught = "none"
    /\ co_orphan = {}
    /\ exit_status = -1
    /\ list_calls = 0
    /\ prev = NoRun
    /\ vanished = {}

\* The jobs that are, right now, in the scheduler and not in the configuration.
LiveOrphans(cfg, listing) ==
    Range(running_job_names(listing)) \ Range(expected_job_names(cfg))

\* An exception leaves main(): the run is over, nothing else happens.
Abort(where) ==
    /\ pc' = "aborted"
    /\ uncaught' = where

\* parse_args, load_chronos_config, get_chronos_client
Setup ==
    /\ pc = "start"
    /\ pc' = "read_expected"
    /\ UNCHANGED <<env, disc, taskv, jobv, calls, uncaught, co_orphan, exit_status>>
    /\ UNCHANGED hist

SetupFails ==
    /\ pc = "start"
    /\ Abort("setup")
    /\ UNCHANGED <<env, disc, taskv, jobv, calls, co_orphan, exit_status>>
    /\ UNCHANGED hist

\* expected_jobs = expected_job_names(get_chronos_jobs_for_cluster(soa_dir))
ReadExpected ==
    /\ pc = "read_expected"
    /\ expected_jobs' = expected_job_names(config)
    /\ co_orphan' = LiveOrphans(config, live)
    /\ pc' = "list_running"
    /\ UNCHANGED <<env, running_jobs, to_delete, taskv, jobv, calls, uncaught, exit_status>>
    /\ UNCHANGED hist

\* line 93 wrapped in a try/except that goes on with an empty expected list.
ReadExpectedFails_swallowed ==
    /\ pc = "read_expected"
    /\ uncaught' = "config"
    /\ expected_jobs' = <<>>
    /\ co_orphan' = LiveOrphans(config, live)
    /\ pc' = "list_running"
    /\ UNCHANGED <<env, running_jobs, to_delete, taskv, jobv, calls, exit_status>>
    /\ UNCHANGED hist

ReadExpectedFails ==
    /\ pc = "read_expected"
    /\ Abort("config")
    /\ UNCHANGED <<env, disc, taskv, jobv, calls, co_orphan, exit_status>>
    /\ UNCHANGED hist

\* running_jobs = running_job_names(client)
ListRunning ==
    /\ pc = "list_running"
    /\ running_jobs' = running_job_names(live)
    /\ pc' = "diff"
    /\ UNCHANGED <<env, expected_jobs, to_delete, taskv, jobv, calls, uncaught, co_orphan, exit_status>>
    /\ list_calls' = list_calls + 1
    /\ UNCHANGED <<prev, vanished>>

ListRunningFails ==
    /\ pc = "list_running"
    /\ Abort("list")
    /\ UNCHANGED <<env, disc, taskv, jobv, calls, co_orphan, exit_status>>
    /\ list_calls' = list_calls + 1
    /\ UNCHANGED <<prev, vanished>>

\* to_delete = jobs_to_delete(expected_jobs, running_jobs)
ComputeDiff ==
    /\ pc = "diff"
    /\ to_delete' \in jobs_to_delete(expected_jobs, running_jobs)
    /\ pc' = "cleanup_tasks"
    /\ UNCHANGED <<env, expected_jobs, running_jobs, taskv, jobv, calls, uncaught, co_orphan, exit_status>>
    /\ UNCHANGED hist

\* cleanup_tasks handing client.delete to execute_chronos_api_call_for_job.
CleanupTasksCall_calls_delete ==
    /\ pc = "cleanup_tasks"
    /\ Len(task_responses) < Len(to_delete)
    /\ LET job == to_delete[Len(task_responses) + 1] IN
       \E outcome \in Outcomes :
         LET r == execute_chronos_api_call_for_job(outcome) IN
         /\ calls' = Append(calls, [op |-> "delete", job |-> job, outcome |-> outcome])
         /\ task_responses' = Append(task_responses, <<job, r.value>>)
    /\ UNCHANGED <<pc, uncaught, env, disc, task_successes, task_failures, jobv,
                   co_orphan, exit_status, hist>>

\* one element of the list comprehension of cleanup_tasks
CleanupTasksCall ==
    /\ pc = "cleanup_tasks"
    /\ Len(task_responses) < Len(to_delete)
    /\ LET job == to_delete[Len(task_responses) + 1] IN
       \E outcome \in Outcomes :
         LET r == execute_chronos_api_call_for_job(outcome) IN
         /\ calls' = Append(calls, [op |-> "delete_tasks", job |-> job, outcome |-> outcome])
         /\ IF r.raised
            THEN /\ Abort("delete_tasks")
                 /\ UNCHANGED task_responses
            ELSE /\ task_responses' = Append(task_responses, <<job, r.value>>)
                 /\ UNCHANGED <<pc, uncaught>>
    /\ UNCHANGED <<env, disc, task_successes, task_failures, jobv, co_orphan, exit_status>>
    /\ UNCHANGED hist

\* cleanup_tasks has returned; the loop over task_responses (lines 99-105)
ClassifyTasks ==
    /\ pc = "cleanup_tasks"
    /\ Len(task_responses) = Len(to_delete)
    /\ task_successes' = Successes(task_responses)
    /\ task_failures' = Failures(task_responses)
    /\ pc' = "cleanup_jobs"
    /\ UNCHANGED <<env, disc, task_responses, jobv, calls, uncaught, co_orphan, exit_status>>
    /\ UNCHANGED hist

\* The scheduler: a delete that returns has removed the job from the list.
SchedulerDelete(listing, job, outcome) ==
    IF outcome[1] = "return"
    THEN SelectSeq(listing, LAMBDA e : e.name # job)
    ELSE listing

\* cleanup_jobs handing client.delete_tasks to execute_chronos_api_call_for_job.
CleanupJobsCall_calls_delete_tasks ==
    /\ pc = "cleanup_jobs"
    /\ Len(job_responses) < Len(to_delete)
    /\ LET job == to_delete[Len(job_responses) + 1] IN
       \E outcome \in Outcomes :
         LET r == execute_chronos_api_call_for_job(outcome) IN
         /\ calls' = Append(calls, [op |-> "delete_tasks", job |-> job, outcome |-> outcome])
         /\ job_responses' = Append(job_responses, <<job, r.value>>)
    /\ UNCHANGED <<pc, uncaught, env, disc, taskv, job_successes, job_failures,
                   co_orphan, exit_status, hist>>

\* one loop over the orphans that deletes the job right after its tasks.
CleanupJobsCall_interleaved ==
    /\ pc \in {"cleanup_tasks", "cleanup_jobs"}
    /\ Len(job_responses) < Len(task_responses)
    /\ LET job == to_delete[Len(job_responses) + 1] IN
       \E outcome \in Outcomes :
         LET r == execute_chronos_api_call_for_job(outcome) IN
         /\ calls' = Append(calls, [op |-> "delete", job |-> job, outcome |-> outcome])
         /\ live' = SchedulerDelete(live, job, outcome)
         /\ job_responses' = Append(job_responses, <<job, r.value>>)
    /\ UNCHANGED <<pc, uncaught, config, disc, taskv, job_successes, job_failures,
                   co_orphan, exit_status, hist>>

\* one element of the list comprehension of cleanup_jobs
CleanupJobsCall ==
    /\ pc = "cleanup_jobs"
    /\ Len(job_responses) < Len(to_delete)
    /\ LET job == to_delete[Len(job_responses) + 1] IN
       \E outcome \in Outcomes :
         LET r == execute_chronos_api_call_for_job(outcome) IN
         /\ calls' = Append(calls, [op |-> "delete", job |-> job, outcome |-> outcome])
         /\ live' = SchedulerDelete(live, job, outcome)
         /\ IF r.raised
            THEN /\ Abort("delete")
                 /\ UNCHANGED job_responses
            ELSE /\ job_responses' = Append(job_responses, <<job, r.value>>)
                 /\ UNCHANGED <<pc, uncaught>>
    /\ UNCHANGED <<config, disc, taskv, job_successes, job_failures, co_orphan, exit_status>>
    /\ UNCHANGED hist

\* cleanup_jobs has returned; the loop over job_responses (lines 108-114)
ClassifyJobs ==
    /\ pc = "cleanup_jobs"
    /\ Len(job_responses) = Len(to_delete)
    /\ job_successes' = Successes(job_responses)
    /\ job_failures' = Failures(job_responses)
    /\ pc' = "report"
    /\ UNCHANGED <<env, disc, taskv, job_responses, calls, uncaught, co_orphan, exit_status>>
    /\ UNCHANGED hist

\* the report and the exit (lines 116-135)
Report ==
    /\ pc = "report"
    /\ exit_status' = ExitStatus(to_delete, task_failures, job_failures)
    /\ pc' = "done"
    /\ UNCHANGED <<env, disc, taskv, jobv, calls, uncaught, co_orphan>>
    /\ UNCHANGED hist

Next ==
    \/ Setup
    \/ SetupFails
    \/ ReadExpected
    \/ ReadExpectedFails
    \/ ListRunning
    \/ ListRunningFails
    \/ ComputeDiff
    \/ CleanupTasksCall
    \/ ClassifyTasks
    \/ CleanupJobsCall
    \/ ClassifyJobs
    \/ Report

Spec == Init /\ [][Next]_vars

\* ------------------------------------------------ a deployment during a run
\* Somebody adds one job to the configuration while main() is between its
\* configuration read and its client.list() call ...
ExternalConfigure ==
    /\ pc = "list_running"
    /\ expected_job_names(config) = expected_jobs
    /\ Len(config) < MaxCfg
    /\ \E pair \in Services \X Jobs :
         /\ config' = Append(config, pair)
         /\ co_orphan' = co_orphan \cup LiveOrphans(config', live)
    /\ UNCHANGED <<pc, live, disc, taskv, jobv, calls, uncaught, exit_status>>
    /\ UNCHANGED hist

\* ... and the configured job is then scheduled.
ExternalSchedule ==
    /\ pc = "list_running"
    /\ Len(live) < MaxLive
    /\ \E job \in Range(expected_job_names(config)) \ Range(running_job_names(live)) :
         /\ live' = Append(live, [name |-> job])
         /\ co_orphan' = co_orphan \cup LiveOrphans(config, live')
    /\ UNCHANGED <<pc, config, disc, taskv, jobv, calls, uncaught, exit_status>>
    /\ UNCHANGED hist

NextRace ==
    \/ Next
    \/ ExternalConfigure
    \/ ExternalSchedule

SpecRace == Init /\ [][NextRace]_vars

\* ================================================================ properties
\* main() is past line 96: to_delete holds the work list.
Diffed == pc \in {"cleanup_tasks", "cleanup_jobs", "report", "done"}

\* main() is past line 114: all four buckets are filled.
Reported == pc \in {"report", "done"}

Raised(call) == call.outcome[1] = "raise"
Returned(call) == call.outcome[1] = "return"

CallsOf(op) == SelectSeq(calls, LAMBDA c : c.op = op)
CallCount(op, job) == Len(SelectSeq(calls, LAMBDA c : c.op = op /\ c.job = job))

\* the job names of a bucket: [job[0] for job in bucket]
NamesOf(bucket) == {bucket[i][1] : i \in 1..Len(bucket)}
Occurrences(bucket, job) == Len(SelectSeq(bucket, LAMBDA r : r[1] = job))

\* ----------------------------------------------------------------------- C1
\* C1: every job handed to client.delete_tasks or client.delete was returned
\* by client.list() and is not an expected job name, whatever the earlier
\* calls did.
C1_OnlyOrphansAreDeleted ==
    \A i \in 1..Len(calls) :
        /\ calls[i].job \in Range(running_jobs)
        /\ calls[i].job \notin Range(expected_jobs)

\* An expected job is running next to an orphan, a call has raised, and a
\* later call was still issued.
C1_Witness ==
    /\ pc = "done"
    /\ Range(expected_jobs) \cap Range(running_jobs) # {}
    /\ \E i, j \in 1..Len(calls) : i < j /\ Raised(calls[i])

\* ----------------------------------------------------------------------- C2
\* C2: jobs_to_delete(E, A) holds exactly the elements of A that are not in
\* E, holds none of them twice, and is empty exactly when every element of A
\* is in E.
C2_DiffIsExact ==
    Diffed =>
        /\ Range(to_delete) = {x \in Range(running_jobs) : x \notin Range(expected_jobs)}
        /\ \A i, j \in 1..Len(to_delete) : to_delete[i] = to_delete[j] => i = j
        /\ (to_delete = <<>>) <=> (\A x \in Range(running_jobs) : x \in Range(expected_jobs))

\* A repeats an orphan and also holds an element of E.
C2_Witness ==
    /\ Diffed
    /\ \E i, j \in 1..Len(running_jobs) :
         i # j /\ running_jobs[i] = running_jobs[j] /\ running_jobs[i] \in Range(to_delete)
    /\ Range(running_jobs) \cap Range(expected_jobs) # {}

\* ----------------------------------------------------------------------- C3
\* C3: an exception raised by a delete_tasks or delete call is caught at that
\* call and recorded as a failure of that job and operation; it never leaves
\* cleanup_tasks / cleanup_jobs, so both operations are attempted for every
\* orphan and the run gets to the report.
C3_FailuresAreIsolated ==
    /\ calls # <<>> => (pc # "aborted" /\ uncaught = "none")
    /\ Len(CallsOf("delete_tasks")) = Len(task_responses)
    /\ Len(CallsOf("delete")) = Len(job_responses)
    /\ \A k \in 1..Len(task_responses) :
         Raised(CallsOf("delete_tasks")[k]) =>
            /\ task_responses[k] = <<CallsOf("delete_tasks")[k].job, "Exception">>
            /\ pc # "cleanup_tasks" => task_responses[k] \in Range(task_failures)
    /\ \A k \in 1..Len(job_responses) :
         Raised(CallsOf("delete")[k]) =>
            /\ job_responses[k] = <<CallsOf("delete")[k].job, "Exception">>
            /\ pc # "cleanup_jobs" => job_responses[k] \in Range(job_failures)
    /\ Reported =>
         \A job \in Range(to_delete) :
            CallCount("delete_tasks", job) > 0 /\ CallCount("delete", job) > 0
    /\ pc \in {"cleanup_tasks", "cleanup_jobs", "report"} => ENABLED Next

\* The first delete_tasks call and the first delete call raised, and the run
\* finished with both calls made for a later orphan.
C3_Witness ==
    /\ pc = "done"
    /\ Len(to_delete) >= 2
    /\ Raised(CallsOf("delete_tasks")[1])
    /\ Raised(CallsOf("delete")[1])
    /\ CallCount("delete_tasks", to_delete[2]) = 1
    /\ CallCount("delete", to_delete[2]) = 1

\* ----------------------------------------------------------------------- C4
\* C4: when exactly one orphan's delete_tasks raises and every other call
\* returns, that orphan is in the task-failure bucket and in no other failure
\* bucket, its client.delete was issued and it is in the job-success bucket,
\* every other orphan is in both success buckets, and the exit status is 1.
C4_TaskFailureDoesNotBlockJobDelete ==
    pc = "done" =>
        \A job \in Range(to_delete) :
            (\A i \in 1..Len(calls) :
                Raised(calls[i]) <=> (calls[i].op = "delete_tasks" /\ calls[i].job = job))
            =>
            /\ job \in NamesOf(task_failures)
            /\ job \notin NamesOf(job_failures)
            /\ CallCount("delete", job) = 1
            /\ job \in NamesOf(job_successes)
            /\ \A other \in Range(to_delete) \ {job} :
                 /\ other \in NamesOf(task_successes)
                 /\ other \in NamesOf(job_successes)
            /\ exit_status = 1

\* ----------------------------------------------------------------------- C5
\* C5: main() exits with 1 exactly when there are orphans and at least one
\* delete_tasks or delete attempt failed (raised); it exits with 0 when there
\* are no orphans and when every attempt succeeded.
C5_ExitStatusIffAnAttemptFailed ==
    pc = "done" =>
        /\ exit_status \in {0, 1}
        /\ exit_status = 1 <=>
              (to_delete # <<>> /\ \E i \in 1..Len(calls) : Raised(calls[i]))

\* ----------------------------------------------------------------------- C6
\* C6: in one run delete_tasks and delete are each called exactly once for
\* every orphan and for nothing else, also once the report is out, and every
\* orphan is exactly once in the two task buckets together and exactly once
\* in the two job buckets together, which hold nothing else.
C6_OneCallAndOneOutcomePerOrphan ==
    /\ \A job \in Jobs :
         CallCount("delete_tasks", job) <= 1 /\ CallCount("delete", job) <= 1
    /\ Reported =>
         \A job \in Jobs :
            LET n == IF job \in Range(to_delete) THEN 1 ELSE 0 IN
            /\ CallCount("delete_tasks", job) = n
            /\ CallCount("delete", job) = n
            /\ Occurrences(task_successes, job) + Occurrences(task_failures, job) = n
            /\ Occurrences(job_successes, job) + Occurrences(job_failures, job) = n

\* Two or more orphans, and none of the four buckets is empty.
C6_Witness ==
    /\ pc = "done"
    /\ Len(to_delete) >= 2
    /\ task_successes # <<>> /\ task_failures # <<>>
    /\ job_successes # <<>> /\ job_failures # <<>>

\* ----------------------------------------------------------------------- C7
\* C7: when there is no orphan (every running job is expected, or nothing is
\* running) the run calls neither delete_tasks nor delete and exits with 0.
C7_NoOrphanNoCall ==
    (Diffed /\ (to_delete = <<>> \/ Range(running_jobs) \subseteq Range(expected_jobs))) =>
        /\ calls = <<>>
        /\ pc = "done" => exit_status = 0

\* The run is over, jobs are running, all of them expected, and a job is
\* expected that is not running.
C7_Witness ==
    /\ pc = "done"
    /\ running_jobs # <<>>
    /\ Range(running_jobs) \subseteq Range(expected_jobs)
    /\ Range(expected_jobs) \ Range(running_jobs) # {}

\* ----------------------------------------------------------------------- C8
\* C8: when reading the expected jobs or client.list() raises, the exception
\* leaves main(), the run is over, and no delete_tasks or delete call has
\* been or will be issued; no call is issued before both reads are done.
C8_DiscoveryFailureAborts ==
    /\ [](uncaught \in {"config", "list"} =>
            [](pc = "aborted" /\ calls = <<>> /\ exit_status = -1))
    /\ [](calls # <<>> => Diffed)

\* client.list() raised while an orphan was running.
C8_Witness ==
    /\ pc = "aborted"
    /\ uncaught = "list"
    /\ LiveOrphans(config, live) # {}

\* ----------------------------------------------------------------------- C9
\* C9: a delete_tasks or delete call that returns is recorded as a success of
\* that job and operation whatever it returns, an Exception object included;
\* a call is recorded as a failure only when it raised.
C9_ReturnedMeansSuccess ==
    Reported =>
        /\ \A k \in 1..Len(CallsOf("delete_tasks")) :
             LET call == CallsOf("delete_tasks")[k] IN
             /\ Returned(call) => call.job \in NamesOf(task_successes)
             /\ call.job \in NamesOf(task_failures) => Raised(call)
        /\ \A k \in 1..Len(CallsOf("delete")) :
             LET call == CallsOf("delete")[k] IN
             /\ Returned(call) => call.job \in NamesOf(job_successes)
             /\ call.job \in NamesOf(job_failures) => Raised(call)

\* ---------------------------------------------------------------------- C10
\* C10: every job of to_delete was, at one common instant between the
\* configuration read and the client.list() call, in the scheduler and not
\* in the configuration.
C10_ConsistentSnapshot ==
    Diffed => Range(to_delete) \subseteq co_orphan

\* ---------------------------------------------------------------------- C11
\* the orphans for which the call has been attempted
TaskAttempted == {c.job : c \in Range(CallsOf("delete_tasks"))}
JobAttempted == {c.job : c \in Range(CallsOf("delete"))}

\* the orphans between their two calls: tasks attempted, job not yet
InBetween == TaskAttempted \ JobAttempted

\* C11 as stated: at every point of the cleanup each orphan is processed
\* (both calls attempted) or untouched (neither), with at most one orphan in
\* between its two calls.
C11_AtMostOneOrphanInBetween ==
    Diffed =>
        /\ JobAttempted \subseteq TaskAttempted
        /\ TaskAttempted \subseteq Range(to_delete)
        /\ Cardinality(InBetween) <= 1

\* C11 amended: at every point of the cleanup each orphan is processed,
\* untouched, or between its two calls, and the orphans in between can be
\* all of them: no orphan is processed while one is untouched.
C11_NoneProcessedWhileOneUntouched ==
    [](Diffed =>
        /\ JobAttempted \subseteq TaskAttempted
        /\ TaskAttempted \subseteq Range(to_delete)
        /\ JobAttempted # {} => TaskAttempted = Range(to_delete))

\* One orphan is processed and two are between their calls.
C11_Witness ==
    /\ pc = "cleanup_jobs"
    /\ Cardinality(JobAttempted) = 1
    /\ Cardinality(InBetween) = 2

\* ---------------------------------------------------------------------- C12
\* C12: client.delete(j) is never called before client.delete_tasks(j) has
\* been called and has returned or raised.
C12_TasksBeforeJob ==
    [](\A i \in 1..Len(calls) :
        calls[i].op = "delete" =>
            \E k \in 1..(i - 1) :
                calls[k].op = "delete_tasks" /\ calls[k].job = calls[i].job)

\* delete was called for an orphan whose delete_tasks had raised, and for
\* one whose delete_tasks had returned.
C12_Witness ==
    /\ \E i, k \in 1..Len(calls) :
         /\ calls[i].op = "delete" /\ calls[k].op = "delete_tasks"
         /\ calls[i].job = calls[k].job /\ Raised(calls[k])
    /\ \E i, k \in 1..Len(calls) :
         /\ calls[i].op = "delete" /\ calls[k].op = "delete_tasks"
         /\ calls[i].job = calls[k].job /\ Returned(calls[k])

\* ------------------------------------------------------ the discovery alone
\* main() up to the return of jobs_to_delete (lines 85-96): the two lists
\* are read and the work list is computed from them.
NextDiscovery ==
    \/ Setup
    \/ SetupFails
    \/ ReadExpected
    \/ ReadExpectedFails
    \/ ListRunning
    \/ ListRunningFails
    \/ ComputeDiff

SpecDiscovery == Init /\ [][NextDiscovery]_vars

\* ---------------------------------------------------------------------- C13
\* the order of identifiers by value
Rank(job) == CASE job = "a" -> 1 [] job = "b" -> 2 [] job = "c" -> 3
RankLess(x, y) == Rank(x) < Rank(y)
IsSorted(s) == \A i, j \in 1..Len(s) : i < j => Rank(s[i]) <= Rank(s[j])
SortedListOf(S) == CHOOSE l \in ListsOf(S) : IsSorted(l)

\* C13 as stated: the sequence returned by jobs_to_delete is sorted by
\* identifier value.
C13_WorkListIsSorted ==
    Diffed => IsSorted(to_delete)

\* C13 amended: the sequence returned by jobs_to_delete need not be sorted;
\* sorted, it is the sorted list of the running jobs that are not expected,
\* so two runs on the same sets return the same sequence up to its order.
C13_WorkListIsSortedOnceSorted ==
    Diffed =>
        SortSeq(to_delete, RankLess) = SortedListOf(Range(running_jobs) \ Range(expected_jobs))

\* Three orphans were returned out of order.
C13_Witness ==
    /\ Diffed
    /\ Len(to_delete) = 3
    /\ ~IsSorted(to_delete)

\* ---------------------------------------------------------------------- C14
\* what the client did, in this run, for an operation on a job
OutcomeOf(op, job) == (CHOOSE c \in Range(calls) : c.op = op /\ c.job = job).outcome
TaskOutcome(job) == OutcomeOf("delete_tasks", job)
JobOutcome(job) == OutcomeOf("delete", job)

\* C14: with every call's outcome depending on the job and the operation
\* only, the membership of the four buckets and the exit status are the same
\* for every order in which the orphans are processed.
C14_BucketsIgnoreOrder ==
    [](pc = "done" =>
        LET task_outcome == [job \in Range(to_delete) |-> TaskOutcome(job)]
            job_outcome == [job \in Range(to_delete) |-> JobOutcome(job)]
            task_ok == NamesOf(task_successes)
            task_ko == NamesOf(task_failures)
            job_ok == NamesOf(job_successes)
            job_ko == NamesOf(job_failures) IN
        \A order \in ListsOf(Range(to_delete)) :
            LET tasks == cleanup(task_outcome, order)
                jobs == cleanup(job_outcome, order)
                tfail == Failures(tasks)
                jfail == Failures(jobs) IN
            /\ NamesOf(Successes(tasks)) = task_ok
            /\ NamesOf(tfail) = task_ko
            /\ NamesOf(Successes(jobs)) = job_ok
            /\ NamesOf(jfail) = job_ko
            /\ ExitStatus(order, tfail, jfail) = exit_status)

\* The orphans were processed as [b, a, c]; two task deletions and one job
\* deletion failed, the rest succeeded.
C14_Witness ==
    /\ pc = "done"
    /\ to_delete = <<"b", "a", "c">>
    /\ Len(task_failures) = 2
    /\ Len(job_failures) = 1

\* ---------------------------------------------------------------------- C15
\* C15: the elements of jobs_to_delete(E, A) are the same for every
\* reordering and every repetition of the elements of E and of A: they
\* depend on the sets of values in E and in A only.
C15_DiffDependsOnSetsOnly ==
    (pc = "cleanup_tasks" /\ calls = <<>>) =>
        \A E2 \in SeqsUpTo(Jobs, MaxCfg), A2 \in SeqsUpTo(Jobs, MaxLive) :
            (Range(E2) = Range(expected_jobs) /\ Range(A2) = Range(running_jobs)) =>
                \A l \in jobs_to_delete(E2, A2) : Range(l) = Range(to_delete)

\* E repeats an element, A repeats an orphan and also holds the element of E.
C15_Witness ==
    /\ pc = "cleanup_tasks" /\ calls = <<>>
    /\ Len(expected_jobs) = 2 /\ Cardinality(Range(expected_jobs)) = 1
    /\ Len(running_jobs) = 3 /\ Cardinality(Range(running_jobs)) = 2
    /\ Range(expected_jobs) \subseteq Range(running_jobs)
    /\ Len(to_delete) = 1

\* ---------------------------------------------------------------------- C19
\* the calls of a run on this work list, in order
PlannedCalls ==
    [i \in 1..(2 * Len(to_delete)) |->
        IF i <= Len(to_delete)
        THEN <<"delete_tasks", to_delete[i]>>
        ELSE <<"delete", to_delete[i - Len(to_delete)]>>]

\* C19: the calls of a run are all the delete_tasks calls in work-list order
\* followed by all the delete calls in the same order; no delete is issued
\* before delete_tasks has been attempted for every orphan.
C19_PhaseOrder ==
    [](/\ Len(calls) <= 2 * Len(to_delete)
       /\ \A i \in 1..Len(calls) : <<calls[i].op, calls[i].job>> = PlannedCalls[i]
       /\ pc = "done" => Len(calls) = 2 * Len(to_delete))

\* A run over three orphans is over, with calls that raised in both phases.
C19_Witness ==
    /\ pc = "done"
    /\ Len(calls) = 6
    /\ Raised(calls[1])
    /\ Raised(calls[4])

\* ------------------------------------------------------- one run after another
\* the jobs whose client.delete raised / returned in this run
DeleteRaised == {c.job : c \in {d \in Range(CallsOf("delete")) : Raised(d)}}
DeleteReturned == {c.job : c \in {d \in Range(CallsOf("delete")) : Returned(d)}}

\* The run is over and the script is started again, on the configuration and
\* the scheduler as the run left them.
Rerun ==
    /\ pc \in {"done", "aborted"}
    /\ prev' = [status |-> IF pc = "done" THEN "completed" ELSE "aborted",
                raised |-> DeleteRaised,
                deleted |-> prev.deleted \cup DeleteReturned]
    /\ pc' = "start"
    /\ expected_jobs' = <<>>
    /\ running_jobs' = <<>>
    /\ to_delete' = <<>>
    /\ task_responses' = <<>>
    /\ task_successes' = <<>>
    /\ task_failures' = <<>>
    /\ job_responses' = <<>>
    /\ job_successes' = <<>>
    /\ job_failures' = <<>>
    /\ calls' = <<>>
    /\ uncaught' = "none"
    /\ co_orphan' = {}
    /\ exit_status' = -1
    /\ list_calls' = 0
    /\ vanished' = {}
    /\ UNCHANGED env

NextRerun ==
    \/ Next
    \/ Rerun

\* The runs are followed from the smaller schedulers.
InitRerun ==
    /\ Init
    /\ Len(live) <= MaxRerunLive

SpecRerun == InitRerun /\ [][NextRerun]_vars

\* ---------------------------------------------------------------------- C16
\* C16: with a scheduler that drops a job when its delete returns and keeps it
\* when its delete raises, an unchanged configuration and nobody else acting,
\* the orphans of the next run are exactly the jobs whose delete failed in
\* this run; a job whose delete succeeded is in no later work list; a run
\* after a run without a failed delete issues no delete_tasks and no delete.
C16_NextRunTakesWhatFailed ==
    /\ (Diffed /\ prev.status = "completed") => Range(to_delete) = prev.raised
    /\ Diffed => Range(to_delete) \cap prev.deleted = {}
    /\ (prev.status = "completed" /\ prev.raised = {}) => calls = <<>>

\* The run before deleted one job and failed to delete another, and this run
\* has its work list.
C16_Witness ==
    /\ Diffed
    /\ prev.status = "completed"
    /\ prev.deleted # {}
    /\ prev.raised # {}
    /\ Len(to_delete) >= 1

\* ---------------------------------------------------------------------- C17
\* client.delete(job) is called and returns.
DeleteReturns(job) ==
    /\ CleanupJobsCall
    /\ to_delete[Len(job_responses) + 1] = job
    /\ Returned(calls'[Len(calls')])

\* Runs repeated for ever: a run goes on to its end and is followed by another;
\* a step of discovery that is tried again and again succeeds in the end, and
\* so does the deletion of a job that is tried again and again.
SpecConverge ==
    /\ SpecRerun
    /\ WF_vars(Next)
    /\ WF_vars(Rerun)
    /\ SF_vars(Setup)
    /\ SF_vars(ReadExpected)
    /\ SF_vars(ListRunning)
    /\ \A job \in Jobs : SF_vars(DeleteReturns(job))

\* C17: with a fixed configuration, nobody adding jobs, runs repeated for
\* ever and every job deletion succeeding in the end, the scheduler's jobs
\* become and stay a subset of the expected jobs, and no expected job is
\* removed on the way.
C17_Converges ==
    /\ <>[](LiveOrphans(config, live) = {})
    /\ [][\A job \in Range(expected_job_names(config)) :
            job \in Range(running_job_names(live)) =>
                job \in Range(running_job_names(live'))]_vars

\* The delete of an orphan raised in the run before and returned in this
\* one; no orphan is left and an expected job is still running.
C17_Witness ==
    /\ prev.status = "completed"
    /\ prev.raised # {}
    /\ DeleteReturned = prev.raised
    /\ LiveOrphans(config, live) = {}
    /\ live # <<>>

\* ------------------------------------------- a job vanishing during a run
\* Somebody else takes an orphan off the scheduler after discovery and before
\* the run has called client.delete for it.
ExternalUnschedule ==
    /\ pc \in {"cleanup_tasks", "cleanup_jobs"}
    /\ vanished = {}
    /\ \E job \in Range(to_delete) \cap Range(running_job_names(live)) :
         /\ CallCount("delete", job) = 0
         /\ live' = SelectSeq(live, LAMBDA e : e.name # job)
         /\ vanished' = {job}
    /\ UNCHANGED <<pc, config, disc, taskv, jobv, calls, uncaught, co_orphan,
                   exit_status, list_calls, prev>>

NextVanish ==
    \/ Next
    \/ ExternalUnschedule

SpecVanish == Init /\ [][NextVanish]_vars

\* ---------------------------------------------------------------------- C18
\* C18: for an orphan that was taken off the scheduler after discovery the
\* run still issues delete_tasks and delete, without a second client.list(),
\* and records each call as the client reports it: a failure if the call
\* raised, a success otherwise.
C18_NoRevalidation ==
    Reported =>
        \A job \in vanished :
            /\ list_calls = 1
            /\ CallCount("delete_tasks", job) = 1
            /\ CallCount("delete", job) = 1
            /\ Raised([outcome |-> TaskOutcome(job)]) <=> job \in NamesOf(task_failures)
            /\ Returned([outcome |-> TaskOutcome(job)]) <=> job \in NamesOf(task_successes)
            /\ Raised([outcome |-> JobOutcome(job)]) <=> job \in NamesOf(job_failures)
            /\ Returned([outcome |-> JobOutcome(job)]) <=> job \in NamesOf(job_successes)

====
